---------------------------- MODULE Spec2Model ----------------------------
(***************************************************************************)
(* polkadot-rewards, src/cli.rs: the run of app() as a state machine (the   *)
(* two fetches, the creation of the output, the row loop, the return and    *)
(* the drop of the csv writer), and amount_to_network as an operator on     *)
(* unsigned integers and IEEE-754 doubles.                                  *)
(*                                                                          *)
(* Numbers wider than TLC's integers (u128 amounts, 53-bit mantissas) are   *)
(* sequences of bits, most significant bit first.                           *)
(***************************************************************************)
EXTENDS Integers, Sequences, FiniteSets

VARIABLES
    pc,          \* the position of app() in its body
    app,         \* the parsed arguments the run reads (network, currency, stdout, folder)
    rewards,     \* what fetch_all_rewards returned
    prices,      \* what fetch_prices returned
    i,           \* pairs the zip iterator has yielded and the loop body has completed
    wtr,         \* the Output value: its variant, header state, buffer, file handle
    file,        \* the file at the path the run computes
    stdout,      \* the lines the process has written to standard output
    result,      \* what app() returns
    fetched,     \* history: the fetch stages attempted, in order
    lookups,     \* history: current_price.get calls made
    serializes,  \* history: Output::serialize calls made
    ioFailed,    \* history: some write to the destination has failed
    conv         \* a single call of amount_to_network: its arguments and its result

vars == <<pc, app, rewards, prices, i, wtr, file, stdout, result,
          fetched, lookups, serializes, ioFailed, conv>>

-----------------------------------------------------------------------------
(* Bounds of the model *)

\* longest sequence fetch_all_rewards returns
MaxRewards == 2
\* longest sequence fetch_prices returns
MaxPrices == 2
\* lines the csv writer's buffer holds before it must write them out
BufLines == 1
\* largest unit count k of the raw amounts k * 2^s * 5^p that are converted
MaxUnits == 5

-----------------------------------------------------------------------------
(* Bit sequences, and arithmetic on them in limbs of LimbBits bits *)

Zeros(n) == [k \in 1..n |-> 0]

Ones(n) == [k \in 1..n |-> 1]

StripZeros(b) ==
    IF \A k \in 1..Len(b) : b[k] = 0 THEN <<>>
    ELSE LET first == CHOOSE k \in 1..Len(b) :
                          b[k] = 1 /\ \A j \in 1..(k - 1) : b[j] = 0
         IN  SubSeq(b, first, Len(b))

RECURSIVE Pow(_, _)
Pow(b, n) ==
    IF n = 0 THEN 1
    ELSE LET h == Pow(b, n \div 2)
         IN  IF n % 2 = 0 THEN h * h ELSE h * h * b

\* a limb is a number below 2^LimbBits; products and remainders of limbs with
\* the factors used here (at most 5^6) stay below 2^31
LimbBits == 15

LimbBase == Pow(2, LimbBits)

\* the number a short bit sequence writes
RECURSIVE BitsVal(_)
BitsVal(b) ==
    IF Len(b) = 0 THEN 0
    ELSE IF Len(b) = 1 THEN b[1]
    ELSE LET h == Len(b) \div 2
         IN  BitsVal(SubSeq(b, 1, h)) * Pow(2, Len(b) - h) + BitsVal(SubSeq(b, h + 1, Len(b)))

ToLimbs(b) ==
    LET n == (Len(b) + LimbBits - 1) \div LimbBits
        p == Zeros(n * LimbBits - Len(b)) \o b
    IN  [k \in 1..n |-> BitsVal(SubSeq(p, (k - 1) * LimbBits + 1, k * LimbBits))]

FromLimbs(l) ==
    [j \in 1..(Len(l) * LimbBits) |->
        (l[((j - 1) \div LimbBits) + 1] \div Pow(2, LimbBits - 1 - ((j - 1) % LimbBits))) % 2]

NatBits(n) == StripZeros(FromLimbs(<<n \div (LimbBase * LimbBase), (n \div LimbBase) % LimbBase, n % LimbBase>>))

\* b + 1
Inc(b) ==
    IF \A k \in 1..Len(b) : b[k] = 1 THEN <<1>> \o Zeros(Len(b))
    ELSE LET last == CHOOSE k \in 1..Len(b) :
                         b[k] = 0 /\ \A j \in (k + 1)..Len(b) : b[j] = 1
         IN  SubSeq(b, 1, last - 1) \o <<1>> \o Zeros(Len(b) - last)

\* limbs k.. of l times m: the product's limbs and the carry out of them
RECURSIVE MulLimbs(_, _, _)
MulLimbs(l, m, k) ==
    IF k > Len(l) THEN [limbs |-> <<>>, carry |-> 0]
    ELSE LET rest == MulLimbs(l, m, k + 1)
             t    == l[k] * m + rest.carry
         IN  [limbs |-> <<t % LimbBase>> \o rest.limbs, carry |-> t \div LimbBase]

\* b * m, for m below 2^LimbBits
MulSmall(b, m) ==
    LET p == MulLimbs(ToLimbs(b), m, 1)
    IN  StripZeros(FromLimbs(<<p.carry>> \o p.limbs))

\* the first k limbs of l divided by d: the quotient's limbs and the remainder
RECURSIVE DivLimbs(_, _, _)
DivLimbs(l, d, k) ==
    IF k = 0 THEN [q |-> <<>>, r |-> 0]
    ELSE LET prev == DivLimbs(l, d, k - 1)
             t    == prev.r * LimbBase + l[k]
         IN  [q |-> Append(prev.q, t \div d), r |-> t % d]

\* b divided by d, for d below 2^LimbBits: the quotient's bits and the remainder
DivSmall(b, d) ==
    LET l  == ToLimbs(b)
        dv == DivLimbs(l, d, Len(l))
    IN  [q |-> FromLimbs(dv.q), r |-> dv.r]

\* b * 5^k and b / 5^k for k up to 12, in two steps of at most 5^6 each
MulPow5(b, k) == MulSmall(MulSmall(b, Pow(5, k \div 2)), Pow(5, k - (k \div 2)))

DivPow5(b, k) ==
    LET one == DivSmall(b, Pow(5, k \div 2))
        two == DivSmall(one.q, Pow(5, k - (k \div 2)))
    IN  [q |-> two.q, exact |-> one.r = 0 /\ two.r = 0]

-----------------------------------------------------------------------------
(* f64: m * 2^e with m of exactly MantissaBits bits, the first one set, or zero *)

MantissaBits == 53

\* extra quotient bits a division computes before it rounds
GuardShift == 32

F64Zero == [m |-> <<>>, e |-> 0]

\* bits * 2^e, plus less than one unit of bits' last place when sticky, rounded
\* to the nearest double, ties to even
RoundNearestEven(bits, e, sticky) ==
    LET b == StripZeros(bits)
        L == Len(b)
    IN  IF L = 0 THEN F64Zero
        ELSE IF L <= MantissaBits
        THEN [m |-> b \o Zeros(MantissaBits - L), e |-> e - (MantissaBits - L)]
        ELSE LET keep  == SubSeq(b, 1, MantissaBits)
                 guard == b[MantissaBits + 1]
                 rest  == sticky \/ \E k \in (MantissaBits + 2)..L : b[k] = 1
                 up    == guard = 1 /\ (rest \/ keep[MantissaBits] = 1)
                 r     == IF up THEN Inc(keep) ELSE keep
             IN  IF Len(r) > MantissaBits
                 THEN [m |-> SubSeq(r, 1, MantissaBits), e |-> e + (L - MantissaBits) + 1]
                 ELSE [m |-> r, e |-> e + (L - MantissaBits)]

\* `*amount as f64`
U128AsF64(amount) == RoundNearestEven(amount, 0, FALSE)

\* a / 1e<k>: the literal 1e<k> is the double 5^k * 2^k
F64DivPow10(a, k) ==
    IF a.m = <<>> THEN F64Zero
    ELSE LET dv == DivPow5(a.m \o Zeros(GuardShift), k)
         IN  RoundNearestEven(dv.q, a.e - GuardShift - k, ~dv.exact)

Network == {"Polkadot", "Kusama"}

\* the zeros of the literal 10000000000f64
PolkadotDecimals == 10
\* the zeros of the literal 1000000000000f64
KusamaDecimals == 12

amount_to_network_swapped(network, amount) ==
    CASE network = "Polkadot" -> F64DivPow10(U128AsF64(amount), KusamaDecimals)
      [] network = "Kusama"   -> F64DivPow10(U128AsF64(amount), PolkadotDecimals)

amount_to_network(network, amount) ==
    CASE network = "Polkadot" -> F64DivPow10(U128AsF64(amount), PolkadotDecimals)
      [] network = "Kusama"   -> F64DivPow10(U128AsF64(amount), KusamaDecimals)

-----------------------------------------------------------------------------
(* The raw amounts converted: u128 values *)

U128Bits == 128

\* k * 2^s * 5^p, kept to 128 bits
Scaled(k, s, p) ==
    LET b == MulPow5(NatBits(k) \o (IF k = 0 THEN <<>> ELSE Zeros(s)), p)
    IN  IF Len(b) > U128Bits THEN SubSeq(b, Len(b) - U128Bits + 1, Len(b)) ELSE b

RawAmounts ==
    { Scaled(k, s, p) : k \in 0..MaxUnits, s \in {0, 10, 12, 60}, p \in {0, 10, 12} }
    \cup { Ones(n) : n \in {53, 54, 64, U128Bits} }
    \cup { <<1>> \o Zeros(52) \o <<1>>, <<1>> \o Zeros(51) \o <<1, 1>> }

-----------------------------------------------------------------------------
(* The inputs of a run *)

\* pub enum Network, fn id
Network_id(network) ==
    CASE network = "Polkadot" -> "polkdadot"
      [] network = "Kusama"   -> "kusama"

OUTPUT_DATE == "%Y-%m-%d"

\* the --currency values tried
Requested == {"USD", "usd", "EUR"}

\* the currency codes the price feed answers with
Currencies == {"USD", "EUR"}

\* price.market_data.current_price: a map from currency code to price
Snapshot(S, usd) == [c \in S |-> IF c = "USD" THEN usd ELSE usd - 2]

\* the snapshots the price feed may return
PriceSnapshots ==
    { Snapshot(S, 15) : S \in SUBSET Currencies } \cup { Snapshot({"USD"}, 16) }

\* the rewards the crawler may return
RewardEvents ==
    { [block_num |-> 100, day |-> 1, amount |-> Scaled(5, 10, 10)],
      [block_num |-> 101, day |-> 2, amount |-> <<1>>] }

SeqsUpTo(S, n) == UNION { [1..k -> S] : k \in 0..n }

Min(a, b) == IF a <= b THEN a ELSE b

\* the file at the target path before the run: absent, or left by an earlier run
InitialFiles ==
    { [exists |-> FALSE, lines |-> <<>>],
      [exists |-> TRUE,  lines |-> <<[kind |-> "stale"]>>] }

-----------------------------------------------------------------------------
(* The values app() works with *)

Running == [status |-> "Running", context |-> "", currency |-> "", keys |-> {}]

Ok == [status |-> "Ok", context |-> "", currency |-> "", keys |-> {}]

Err_unnamed(context) == [status |-> "Err", context |-> "", currency |-> "", keys |-> {}]

\* an anyhow::Error carrying a context message
Err(context) == [status |-> "Err", context |-> context, currency |-> "", keys |-> {}]

\* anyhow!("Specified fiat currency '{}' not supported: {:#?}", app.currency, keys)
CurrencyNotSupported(currency, keys) ==
    [status |-> "Err", context |-> "Specified fiat currency not supported",
     currency |-> currency, keys |-> keys]

\* no Output value yet
NoOutput == [variant |-> "None", header |-> "Write", buf |-> <<>>, open |-> FALSE]

\* the header csv derives from CsvRecord's fields
HeaderLine == [kind |-> "header", fields |-> <<"block_num", "block_time", "amount", "price">>]

RowLine(record) == [kind |-> "row", record |-> record]

\* fn construct_file_name
construct_file_name(a) == <<Network_id(a.network), "address", "from", "to", "rewards">>

\* reward.day.format(&app.date_format).to_string()
FormatDay(day, date_format) == [format |-> date_format, day |-> day]

lookup_folded(snapshot, currency) ==
    LET fold(c) == IF c = "usd" THEN "USD" ELSE c
    IN  IF fold(currency) \in DOMAIN snapshot
        THEN [found |-> TRUE, price |-> snapshot[fold(currency)]]
        ELSE [found |-> FALSE, price |-> 0]

\* price.market_data.current_price.get(&app.currency)
lookup(snapshot, currency) ==
    IF currency \in DOMAIN snapshot
    THEN [found |-> TRUE, price |-> snapshot[currency]]
    ELSE [found |-> FALSE, price |-> 0]

zip_next_misaligned(rs, ps, k) ==
    [reward |-> rs[k], price |-> ps[Min(Len(rs), Len(ps)) + 1 - k]]

\* rewards.iter().zip(prices.iter()): the k-th pair it yields
zip_next(rs, ps, k) == [reward |-> rs[k], price |-> ps[k]]

\* the pairs the zip yields before either iterator ends
zip_len(rs, ps) == Min(Len(rs), Len(ps))

\* amount_to_network(&app.network, &reward.amount), computed once for each
\* network and each amount the crawler may return
DisplayAmount ==
    [n \in Network, x \in {r.amount : r \in RewardEvents} |-> amount_to_network(n, x)]

\* the CsvRecord literal of the loop body
CsvRecord(a, reward, price) ==
    [block_num  |-> reward.block_num,
     block_time |-> FormatDay(reward.day, a.date_format),
     amount     |-> DisplayAmount[a.network, reward.amount],
     price      |-> price]

-----------------------------------------------------------------------------
(* Output: a csv::Writer over a file or over standard output *)

\* where the writer's variant writes
Dest == IF wtr.variant = "FileOut" THEN file.lines ELSE stdout

\* one line into the writer's buffer; a full buffer is written out first, and
\* that write succeeds or fails as the destination decides (ok)
WriteLine_discarding(st, line, ok) ==
    IF Len(st.wtr.buf) < BufLines
    THEN [st EXCEPT !.wtr.buf = Append(@, line)]
    ELSE IF ok
    THEN [st EXCEPT !.dest = @ \o st.wtr.buf, !.wtr.buf = <<line>>]
    ELSE [st EXCEPT !.err = TRUE, !.wtr.buf = <<>>]

WriteLine(st, line, ok) ==
    IF Len(st.wtr.buf) < BufLines
    THEN [st EXCEPT !.wtr.buf = Append(@, line)]
    ELSE IF ok
    THEN [st EXCEPT !.dest = @ \o st.wtr.buf, !.wtr.buf = <<line>>]
    ELSE [st EXCEPT !.err = TRUE]

serialize_header_each(w, dest, record, ok) ==
    LET s1 == WriteLine([wtr |-> w, dest |-> dest, err |-> FALSE], HeaderLine, ok)
    IN  IF s1.err THEN s1 ELSE WriteLine(s1, RowLine(record), ok)

\* Output::serialize, csv::Writer::serialize: the header before the first
\* record, then the record
serialize(w, dest, record, ok) ==
    LET s0 == [wtr |-> w, dest |-> dest, err |-> FALSE]
        h  == WriteLine(s0, HeaderLine, ok)
        s1 == IF w.header # "Write" THEN s0
              ELSE IF h.err THEN h
              ELSE [h EXCEPT !.wtr.header = "DidWrite"]
    IN  IF s1.err THEN s1 ELSE WriteLine(s1, RowLine(record), ok)

Output_new_file_always(a) == "FileOut"

\* Output::new: the variant the stdout switch selects
Output_new(a) == IF a.stdout THEN "StdOut" ELSE "FileOut"

from_writer_with_header(variant) ==
    [variant |-> variant, header |-> "DidWrite", buf |-> <<HeaderLine>>, open |-> TRUE]

\* builder.from_writer(..): a writer with an empty buffer and its header unwritten
from_writer(variant) ==
    [variant |-> variant, header |-> "Write", buf |-> <<>>, open |-> TRUE]

Written_to_stdout(variant, f, out, lines) == [file |-> f, stdout |-> lines]

\* the destination after the writer has written: the file's lines for FileOut,
\* the lines on standard output for StdOut
Written(variant, f, out, lines) ==
    IF variant = "FileOut"
    THEN [file |-> [f EXCEPT !.lines = lines], stdout |-> out]
    ELSE [file |-> f, stdout |-> lines]

-----------------------------------------------------------------------------
(* The run of app() *)

Init ==
    /\ pc = "fetch_rewards"
    /\ app \in [network : Network, currency : Requested, stdout : BOOLEAN,
                date_format : {OUTPUT_DATE},
                folder : {[dir |-> "cwd", name |-> <<>>, ext |-> ""]}]
    /\ rewards = <<>>
    /\ prices = <<>>
    /\ i = 0
    /\ wtr = NoOutput
    /\ file \in InitialFiles
    /\ stdout = <<>>
    /\ result = Running
    /\ fetched = <<>>
    /\ lookups = 0
    /\ serializes = 0
    /\ ioFailed = FALSE
    /\ conv = [network |-> "Polkadot", amount |-> <<>>, result |-> F64Zero, done |-> FALSE]

\* api.fetch_all_rewards(..).context("Failed to fetch rewards.")?
FetchRewards ==
    /\ pc = "fetch_rewards"
    /\ fetched' = Append(fetched, "rewards")
    /\ \/ \E rs \in SeqsUpTo(RewardEvents, MaxRewards) :
            /\ rewards' = rs
            /\ pc' = "fetch_prices"
            /\ UNCHANGED result
       \/ /\ result' = Err("Failed to fetch rewards.")
          /\ pc' = "return"
          /\ UNCHANGED rewards
    /\ UNCHANGED <<app, prices, i, wtr, file, stdout, lookups, serializes, ioFailed, conv>>

\* api.fetch_prices(&rewards).context("Failed to fetch prices.")?
FetchPrices ==
    /\ pc = "fetch_prices"
    /\ fetched' = Append(fetched, "prices")
    /\ \/ \E ps \in SeqsUpTo(PriceSnapshots, MaxPrices) :
            /\ prices' = ps
            /\ pc' = "output_new"
            /\ UNCHANGED result
       \/ /\ result' = Err("Failed to fetch prices.")
          /\ pc' = "return"
          /\ UNCHANGED prices
    /\ UNCHANGED <<app, rewards, i, wtr, file, stdout, lookups, serializes, ioFailed, conv>>

\* the file name pushed onto app.folder, then
\* Output::new(&app).context("Failed to create output.")?
OutputNew ==
    /\ pc = "output_new"
    /\ app' = [app EXCEPT !.folder = [dir |-> @.dir, name |-> construct_file_name(app),
                                      ext |-> "csv"]]
    /\ \/ /\ Output_new(app) = "StdOut"
          /\ wtr' = from_writer("StdOut")
          /\ pc' = "loop"
          /\ UNCHANGED <<file, result>>
       \/ /\ Output_new(app) = "FileOut"
          /\ \/ /\ file' = [exists |-> TRUE, lines |-> <<>>]
                /\ wtr' = from_writer("FileOut")
                /\ pc' = "loop"
                /\ UNCHANGED result
             \/ /\ result' = Err("Failed to create output.")
                /\ pc' = "return"
                /\ UNCHANGED <<file, wtr>>
    /\ UNCHANGED <<rewards, prices, i, stdout, fetched, lookups, serializes, ioFailed, conv>>

\* one turn of the loop body: the record is built (the currency is looked
\* up), then serialized
LoopBody ==
    /\ pc = "loop"
    /\ i < zip_len(rewards, prices)
    /\ lookups' = lookups + 1
    /\ LET reward == zip_next(rewards, prices, i + 1).reward
           price  == zip_next(rewards, prices, i + 1).price
           got    == lookup(price, app.currency)
       IN  \/ /\ ~got.found
              /\ result' = CurrencyNotSupported(app.currency, DOMAIN price)
              /\ pc' = "return"
              /\ UNCHANGED <<i, wtr, file, stdout, serializes, ioFailed>>
           \/ /\ got.found
              /\ serializes' = serializes + 1
              /\ \E ok \in BOOLEAN :
                    LET st == serialize(wtr, Dest, CsvRecord(app, reward, got.price), ok)
                        to == Written(wtr.variant, file, stdout, st.dest)
                    IN  /\ wtr' = st.wtr
                        /\ file' = to.file
                        /\ stdout' = to.stdout
                        /\ IF st.err
                           THEN /\ result' = Err("Failed to format CsvRecord")
                                /\ pc' = "return"
                                /\ ioFailed' = TRUE
                                /\ UNCHANGED i
                           ELSE /\ i' = i + 1
                                /\ UNCHANGED <<result, pc, ioFailed>>
    /\ UNCHANGED <<app, rewards, prices, fetched, conv>>

\* the zip is exhausted: the progress message, then Ok(())
LoopEnd ==
    /\ pc = "loop"
    /\ i >= zip_len(rewards, prices)
    /\ result' = Ok
    /\ pc' = "return"
    /\ UNCHANGED <<app, rewards, prices, i, wtr, file, stdout,
                   fetched, lookups, serializes, ioFailed, conv>>

\* app() returns and its locals are dropped: the csv writer flushes its
\* buffer, discarding the outcome, and the file handle is closed
Return ==
    /\ pc = "return"
    /\ pc' = "done"
    /\ \/ /\ ~wtr.open
          /\ UNCHANGED <<wtr, file, stdout, ioFailed>>
       \/ /\ wtr.open
          /\ \E ok \in BOOLEAN :
                LET done == ok \/ wtr.buf = <<>>
                    to   == Written(wtr.variant, file, stdout,
                                    IF done THEN Dest \o wtr.buf ELSE Dest)
                IN  /\ wtr' = [wtr EXCEPT !.open = FALSE, !.buf = IF done THEN <<>> ELSE @]
                    /\ file' = to.file
                    /\ stdout' = to.stdout
                    /\ ioFailed' = (ioFailed \/ (~ok /\ wtr.buf # <<>>))
    /\ UNCHANGED <<app, rewards, prices, i, result, fetched, lookups, serializes, conv>>

Next == FetchRewards \/ FetchPrices \/ OutputNew \/ LoopBody \/ LoopEnd \/ Return

Spec == Init /\ [][Next]_vars

-----------------------------------------------------------------------------
(* A call of amount_to_network on its own *)

AmountInit ==
    /\ pc = "amount"
    /\ app = [network |-> "Polkadot", currency |-> "USD", stdout |-> TRUE,
              date_format |-> OUTPUT_DATE,
              folder |-> [dir |-> "cwd", name |-> <<>>, ext |-> ""]]
    /\ rewards = <<>>
    /\ prices = <<>>
    /\ i = 0
    /\ wtr = NoOutput
    /\ file = [exists |-> FALSE, lines |-> <<>>]
    /\ stdout = <<>>
    /\ result = Running
    /\ fetched = <<>>
    /\ lookups = 0
    /\ serializes = 0
    /\ ioFailed = FALSE
    /\ conv \in [network : Network, amount : RawAmounts, result : {F64Zero}, done : {FALSE}]

Convert ==
    /\ pc = "amount"
    /\ ~conv.done
    /\ conv' = [conv EXCEPT !.result = amount_to_network(conv.network, conv.amount),
                            !.done = TRUE]
    /\ UNCHANGED <<pc, app, rewards, prices, i, wtr, file, stdout, result,
                   fetched, lookups, serializes, ioFailed>>

AmountNext == Convert

SpecAmount == AmountInit /\ [][AmountNext]_vars

-----------------------------------------------------------------------------
(* What the properties below read off a state *)

IsRow(l) == l.kind = "row"

IsHeader(l) == l.kind = "header"

DataRows(lines) == SelectSeq(lines, IsRow)

Headers(lines) == SelectSeq(lines, IsHeader)

\* every line the writer has accepted: written to the destination, or held in
\* its buffer
Accepted == Dest \o wtr.buf

\* the pairs the loop is to process
Pairs == Min(Len(rewards), Len(prices))

SinkCreated == wtr.variant # "None"

\* the row of the k-th pair, as the loop body builds it
ExpectedRow(k) == CsvRecord(app, rewards[k], prices[k][app.currency])

IsPrefix(s, t) == Len(s) <= Len(t) /\ SubSeq(t, 1, Len(s)) = s

CurrencyFailed == result.context = "Specified fiat currency not supported"

WriteFailed == result.context = "Failed to format CsvRecord"

CreateFailed == result.context = "Failed to create output."

\* nothing of the pipeline has happened: no sink, no output, no record built
Untouched ==
    /\ wtr = NoOutput
    /\ file \in InitialFiles
    /\ stdout = <<>>
    /\ lookups = 0
    /\ serializes = 0

-----------------------------------------------------------------------------
(* C1: with a sink created, the rows the sink has accepted are at every moment
   the rows of pairs 1..i in order, each with its reward's block_num and the
   price of its own snapshot; and a run in which the requested currency is in
   every paired snapshot and no write to the destination fails ends Ok with
   exactly min(len(rewards), len(prices)) data rows on the destination, equal
   or unequal lengths alike. *)
C1_RowsFollowPairs ==
    SinkCreated =>
        /\ Len(DataRows(Accepted)) = i
        /\ i <= Pairs
        /\ \A k \in 1..i :
              /\ DataRows(Accepted)[k].record.block_num = rewards[k].block_num
              /\ app.currency \in DOMAIN prices[k]
              /\ DataRows(Accepted)[k].record.price = prices[k][app.currency]
        /\ ( /\ pc = "done"
             /\ \A k \in 1..Pairs : app.currency \in DOMAIN prices[k]
             /\ ~ioFailed )
           => /\ result = Ok
              /\ Len(DataRows(Dest)) = Pairs
              /\ DataRows(Dest) = DataRows(Accepted)

\* two rewards against one snapshot: one row, no error
C1_Witness ==
    /\ pc = "done"
    /\ result = Ok
    /\ ~ioFailed
    /\ Len(rewards) = 2
    /\ Len(prices) = 1
    /\ Len(DataRows(Dest)) = 1
    /\ DataRows(Dest)[1].record.block_num = rewards[1].block_num

\* the state of a run that failed in the loop, at row i+1
C2_FailedRowState ==
    (CurrencyFailed \/ WriteFailed) =>
        /\ result.status = "Err"
        /\ pc \in {"return", "done"}
        /\ i < Pairs
        /\ DataRows(Accepted) = [k \in 1..i |-> RowLine(ExpectedRow(k))]
        /\ \A k \in 1..i : app.currency \in DOMAIN prices[k]
        /\ lookups = i + 1
        /\ CurrencyFailed => app.currency \notin DOMAIN prices[i + 1] /\ serializes = i
        /\ WriteFailed => app.currency \in DOMAIN prices[i + 1] /\ serializes = i + 1

\* a step takes nothing back from the destination or from the accepted lines
C2_NoRollback ==
    (SinkCreated /\ pc # "output_new") =>
        /\ IsPrefix(Dest, Dest')
        /\ IsPrefix(Accepted, Accepted')
        /\ (CurrencyFailed \/ WriteFailed) => Accepted' = Accepted /\ result' = result

(* C2: when the run fails in the loop, at row i+1, the rows accepted are
   exactly the rows of pairs 1..i, every earlier lookup had succeeded, the
   failing row is the last record built (none later is built or serialized,
   the failing one is not tried again), a row whose lookup failed is never
   handed to the sink, the run goes on to return the error, and what is on the
   destination is never taken back. *)
C2_AbortOnFirstFailure == [](C2_FailedRowState) /\ [][C2_NoRollback]_vars

\* the second row's write fails after the first row was accepted
C2_Witness ==
    /\ pc = "done"
    /\ WriteFailed
    /\ i = 1
    /\ Len(rewards) = 2
    /\ Len(prices) = 2
    /\ Len(DataRows(Accepted)) = 1

(* C3: the currency lookup is exact: a row is accepted only with the price
   stored under the requested code in its own snapshot, and a lookup of a code
   that is no key of the snapshot (a key in another letter case included)
   fails with an error naming the requested code and the snapshot's own keys. *)
C3_ExactLookup ==
    /\ \A k \in 1..Len(DataRows(Accepted)) :
          /\ app.currency \in DOMAIN prices[k]
          /\ DataRows(Accepted)[k].record.price = prices[k][app.currency]
    /\ CurrencyFailed =>
          /\ app.currency \notin DOMAIN prices[i + 1]
          /\ result = CurrencyNotSupported(app.currency, DOMAIN prices[i + 1])
    /\ (pc \in {"return", "done"} /\ SinkCreated /\ i < Pairs /\ ~WriteFailed)
          => CurrencyFailed /\ app.currency \notin DOMAIN prices[i + 1]

\* "usd" asked of a snapshot whose keys are USD and EUR
C3_Witness ==
    /\ CurrencyFailed
    /\ result.currency = "usd"
    /\ result.keys = {"USD", "EUR"}
    /\ lookups = 1
    /\ serializes = 0

(* C4 as stated: with empty rewards and empty prices the run succeeds and the
   output holds the header row and no data row. *)
C4_HeaderOnly ==
    (pc = "done" /\ SinkCreated /\ rewards = <<>> /\ prices = <<>>) =>
        /\ result = Ok
        /\ Len(Headers(Dest)) = 1
        /\ DataRows(Dest) = <<>>

(* C4 amended: with empty rewards and empty prices and the sink created, the
   run succeeds and the output is empty: no data row and no header row, since
   serialize was never called; the file sink leaves an empty file. *)
C4_EmptyOutput ==
    (pc = "done" /\ SinkCreated /\ rewards = <<>> /\ prices = <<>>) =>
        /\ result = Ok
        /\ serializes = 0
        /\ Accepted = <<>>
        /\ wtr.variant = "FileOut" => file = [exists |-> TRUE, lines |-> <<>>]

C4_Witness ==
    /\ pc = "done"
    /\ wtr.variant = "FileOut"
    /\ fetched = <<"rewards", "prices">>
    /\ rewards = <<>>
    /\ prices = <<>>
    /\ result = Ok
    /\ file = [exists |-> TRUE, lines |-> <<>>]

(* C5: for either sink variant the output holds at most one header row, the
   header is its first line whenever it holds a data row, and the header is
   there exactly when serialize has been called: the first call emits it and
   no later call does. *)
C5_HeaderOnce ==
    SinkCreated =>
        /\ Len(Headers(Accepted)) <= 1
        /\ Len(Headers(Accepted)) = 1 <=> serializes >= 1
        /\ wtr.header = "DidWrite" <=> serializes >= 1
        /\ Accepted # <<>> => IsHeader(Accepted[1])
        /\ Dest # <<>> => IsHeader(Dest[1])
        /\ \A k \in 2..Len(Accepted) : IsRow(Accepted[k])

\* a header and two rows on standard output
C5_Witness ==
    /\ wtr.variant = "StdOut"
    /\ serializes = 2
    /\ Len(stdout) = 3
    /\ IsHeader(stdout[1])
    /\ IsRow(stdout[2])
    /\ IsRow(stdout[3])

(* C6 as stated: for every network and every raw amount the display amount
   is exactly the raw amount divided by 10^10 (Polkadot) or 10^12 (Kusama). *)

\* the divisor's decimal exponent, as the claim gives it
ClaimDecimals(network) == IF network = "Polkadot" THEN 10 ELSE 12

\* a + b, each carry found by looking ahead over the lower bits
Add(a, b) ==
    LET n  == (IF Len(a) >= Len(b) THEN Len(a) ELSE Len(b)) + 1
        pa == Zeros(n - Len(a)) \o a
        pb == Zeros(n - Len(b)) \o b
        carry(k) == \E j \in (k + 1)..n :
                        /\ pa[j] = 1 /\ pb[j] = 1
                        /\ \A t \in (k + 1)..(j - 1) : pa[t] = 1 \/ pb[t] = 1
    IN  [k \in 1..n |-> (pa[k] + pb[k] + (IF carry(k) THEN 1 ELSE 0)) % 2]

\* a <= b
Le(a, b) ==
    LET sa == StripZeros(a)
        sb == StripZeros(b)
    IN  \/ Len(sa) < Len(sb)
        \/ /\ Len(sa) = Len(sb)
           /\ \/ sa = sb
              \/ \E k \in 1..Len(sa) :
                    sa[k] < sb[k] /\ \A j \in 1..(k - 1) : sa[j] = sb[j]

\* f * 10^k and x, as two integers on a common scale
Scaled10(f, k, x) ==
    LET p == IF f.m = <<>> THEN <<>> ELSE MulPow5(f.m, k)
        s == f.e + k
    IN  IF s >= 0 THEN [fd |-> StripZeros(p \o Zeros(s)), x |-> StripZeros(x)]
                  ELSE [fd |-> StripZeros(p), x |-> StripZeros(x \o Zeros(-s))]

\* f * 10^k = x
ExactlyQuotient(f, k, x) == Scaled10(f, k, x).fd = Scaled10(f, k, x).x

\* f * 10^k and x differ by at most one part in 2^51 of either
NearlyQuotient(f, k, x) ==
    LET c == Scaled10(f, k, x)
    IN  /\ Le(c.fd \o Zeros(51), Add(c.x \o Zeros(51), c.x))
        /\ Le(c.x \o Zeros(51), Add(c.fd \o Zeros(51), c.fd))

\* the bits from the first set bit to the last
SigBits(b) ==
    LET t == StripZeros(b)
    IN  IF t = <<>> THEN 0
        ELSE CHOOSE k \in 1..Len(t) : t[k] = 1 /\ \A j \in (k + 1)..Len(t) : t[j] = 0

\* x is a double; x / 10^k is a double
IsDouble(x) == SigBits(x) <= 53

QuotientIsDouble(x, k) == DivPow5(x, k).exact /\ SigBits(DivPow5(x, k).q) <= 53

C6_ExactQuotient ==
    conv.done => ExactlyQuotient(conv.result, ClaimDecimals(conv.network), conv.amount)

(* C6 amended: for every network and every raw amount the conversion has no
   error outcome and gives a double (zero exactly for raw amount 0) within one
   part in 2^51 of the raw amount divided by 10^10 (Polkadot) or 10^12
   (Kusama); it is exactly that quotient whenever the raw amount and the
   quotient are both doubles, as for 50000000000 on Polkadot (5) and for 0. *)
C6_RoundedQuotient ==
    conv.done =>
        LET f == conv.result
            k == ClaimDecimals(conv.network)
            x == conv.amount
        IN  /\ f = F64Zero \/ (Len(f.m) = 53 /\ f.m[1] = 1)
            /\ f = F64Zero <=> StripZeros(x) = <<>>
            /\ NearlyQuotient(f, k, x)
            /\ (IsDouble(x) /\ QuotientIsDouble(x, k)) => ExactlyQuotient(f, k, x)

\* 50000000000 on Polkadot gives 5
C6_Witness ==
    /\ conv.done
    /\ conv.network = "Polkadot"
    /\ conv.amount = Scaled(5, 10, 10)
    /\ conv.result = [m |-> <<1, 0, 1>> \o Zeros(50), e |-> -50]

(* C7: when creating the output fails the run is on the file variant, returns
   the error, and no record has been built, no currency looked up, no
   serialize call made and nothing written; with the stdout switch set the
   creation never fails. *)
C7_CreateFailureFirst ==
    /\ CreateFailed =>
          /\ result.status = "Err"
          /\ pc \in {"return", "done"}
          /\ ~app.stdout
          /\ Untouched
          /\ i = 0
    /\ (app.stdout /\ fetched = <<"rewards", "prices">> /\ pc \notin {"fetch_prices", "output_new"}
        /\ result.context # "Failed to fetch prices.")
          => wtr.variant = "StdOut"

\* rewards and prices were fetched, then File::create failed
C7_Witness ==
    /\ pc = "done"
    /\ CreateFailed
    /\ Len(rewards) = 2
    /\ Len(prices) = 2
    /\ \A k \in 1..2 : app.currency \in DOMAIN prices[k]

\* the variant and the destinations against the stdout switch
C8_VariantOfSwitch ==
    SinkCreated =>
        /\ wtr.variant = (IF app.stdout THEN "StdOut" ELSE "FileOut")
        /\ app.stdout => file \in InitialFiles /\ DataRows(stdout) = DataRows(Dest)
        /\ ~app.stdout =>
              /\ stdout = <<>>
              /\ file.exists
              /\ \A k \in 1..Len(file.lines) : file.lines[k].kind # "stale"
              /\ app.folder = [dir |-> "cwd", name |-> construct_file_name(app), ext |-> "csv"]
        /\ Len(DataRows(Accepted)) = i

\* a step keeps the switch and the variant, and leaves the other destination alone
C8_VariantKept ==
    /\ app'.stdout = app.stdout
    /\ SinkCreated => wtr'.variant = wtr.variant
    /\ (SinkCreated /\ app.stdout) => file' = file
    /\ (SinkCreated /\ ~app.stdout) => stdout' = stdout

(* C8: the sink's variant is the one the stdout switch selects and no step
   changes it; with the switch set no file is created or truncated and every
   line goes to standard output, with it clear the file at the computed path
   is created and nothing goes to standard output. *)
C8_OneVariant == [](C8_VariantOfSwitch) /\ [][C8_VariantKept]_vars

\* two rows on standard output beside an earlier run's file, left as it was
C8_Witness ==
    /\ pc = "done"
    /\ wtr.variant = "StdOut"
    /\ Len(DataRows(stdout)) = 2
    /\ file = [exists |-> TRUE, lines |-> <<[kind |-> "stale"]>>]

(* C9: the fetches are attempted in the order rewards, prices, each at most
   once; the sink is created and records are built only after both have
   returned; a run whose reward fetch fails never attempts the price fetch,
   and a run whose fetch fails returns the error naming that stage with no
   sink created, no file created or truncated and no row written. *)
C9_FetchesFirst ==
    /\ fetched \in {<<>>, <<"rewards">>, <<"rewards", "prices">>}
    /\ (SinkCreated \/ lookups > 0 \/ serializes > 0 \/ pc \in {"output_new", "loop"})
          => fetched = <<"rewards", "prices">> /\ result.context \notin
                {"Failed to fetch rewards.", "Failed to fetch prices."}
    /\ (fetched = <<"rewards">> /\ pc # "fetch_prices")
          => /\ result.status = "Err"
             /\ result.context = "Failed to fetch rewards."
             /\ pc \in {"return", "done"}
             /\ prices = <<>>
             /\ Untouched
    /\ (fetched = <<"rewards", "prices">> /\ pc \in {"return", "done"} /\ ~SinkCreated
        /\ ~CreateFailed)
          => /\ result.status = "Err"
             /\ result.context = "Failed to fetch prices."
             /\ Untouched
    /\ result.context = "Failed to fetch rewards." => fetched = <<"rewards">>
    /\ result.context = "Failed to fetch prices." => fetched = <<"rewards", "prices">>

\* two rewards fetched, then the price fetch fails
C9_Witness ==
    /\ pc = "done"
    /\ result.status = "Err"
    /\ result.context = "Failed to fetch prices."
    /\ Len(rewards) = 2
    /\ file = [exists |-> TRUE, lines |-> <<[kind |-> "stale"]>>]

(* C10: once the file sink has been created, the run ends with the handle
   closed and every row the sink accepted on the file, whichever way it ends. *)
C10_FlushedAndClosed ==
    (pc = "done" /\ wtr.variant = "FileOut") =>
        /\ ~wtr.open
        /\ DataRows(wtr.buf) = <<>>
        /\ DataRows(file.lines) = DataRows(Accepted)

=============================================================================
